---- MODULE Spec2Model ----
(***************************************************************************)
(* Model of the LLM Tagger plugin (LLMTaggerPlugin): the tagging and       *)
(* untagging pipeline, the exclusion filter and the staleness check.       *)
(* Strings are sequences of one-character strings, so that the regular     *)
(* expressions of the source are computed character by character.          *)
(***************************************************************************)
EXTENDS Integers, Sequences, FiniteSets, TLC

(***************************************************************************)
(* Characters and JavaScript string primitives                             *)
(***************************************************************************)
UpperChars == <<"A","B","C","D","E","F","G","H","I","J","K","L","M",
                "N","O","P","Q","R","S","T","U","V","W","X","Y","Z">>
LowerChars == <<"a","b","c","d","e","f","g","h","i","j","k","l","m",
                "n","o","p","q","r","s","t","u","v","w","x","y","z">>
DigitChars == <<"0","1","2","3","4","5","6","7","8","9">>

Range(f) == {f[i] : i \in DOMAIN f}

\* \w of a JavaScript regular expression
WordChars == Range(UpperChars) \cup Range(LowerChars) \cup Range(DigitChars) \cup {"_"}
IsWordChar(c) == c \in WordChars

\* \s of a JavaScript regular expression (the characters the model uses)
SpaceChars == {" ", "\n", "\t", "\r"}
IsSpace(c) == c \in SpaceChars

LowerChar(c) ==
    IF c \in Range(UpperChars)
    THEN LowerChars[CHOOSE i \in DOMAIN UpperChars : UpperChars[i] = c]
    ELSE c

\* String.prototype.toLowerCase
ToLowerCase(s) == [i \in 1..Len(s) |-> LowerChar(s[i])]

\* p occurs in s at (1-based) position i
MatchAt(s, p, i) ==
    /\ i >= 1
    /\ i + Len(p) - 1 <= Len(s)
    /\ \A k \in 1..Len(p) : s[i + k - 1] = p[k]

Min(S) == CHOOSE x \in S : \A y \in S : x <= y

\* String.prototype.indexOf from position `from`, 1-based; 0 when absent
IndexOf(s, p, from) ==
    LET hits == {i \in from..(Len(s) - Len(p) + 1) : MatchAt(s, p, i)}
    IN  IF hits = {} THEN 0 ELSE Min(hits)

\* String.prototype.includes
Includes(s, p) == IndexOf(s, p, 1) # 0

\* String.prototype.startsWith
StartsWith(s, p) == MatchAt(s, p, 1)

\* String.prototype.slice(n) with a 0-based start, as SubSeq
SliceFrom(s, n) == SubSeq(s, n + 1, Len(s))

\* String.prototype.trim
Trim(s) ==
    LET keep == {i \in 1..Len(s) : ~IsSpace(s[i])}
    IN  IF keep = {} THEN <<>>
        ELSE SubSeq(s, Min(keep), CHOOSE x \in keep : \A y \in keep : y <= x)

\* Array.prototype.join with a one-string separator
RECURSIVE Join(_, _)
Join(strs, sep) ==
    IF Len(strs) = 0 THEN <<>>
    ELSE IF Len(strs) = 1 THEN strs[1]
    ELSE strs[1] \o sep \o Join(Tail(strs), sep)

(***************************************************************************)
(* Literals of the source                                                  *)
(***************************************************************************)
NL == <<"\n">>
SP == <<" ">>
HASH == <<"#">>
DIVIDER == <<"-","-","-">>
\* '---\nLLM-tagged:' of isAlreadyTagged and of the untag pattern
TagMarker == DIVIDER \o NL \o <<"L","L","M","-","t","a","g","g","e","d",":">>
\* '---\n' opening a frontmatter block, '\n---\n' closing it
FrontMatterOpen == DIVIDER \o NL
FrontMatterClose == NL \o DIVIDER \o NL
\* '---\n\n' after the header line, '\n\n---\n' before the content
HeaderClose == DIVIDER \o NL \o NL
SummaryClose == NL \o NL \o DIVIDER \o NL

(***************************************************************************)
(* Tag synthesis                                                           *)
(***************************************************************************)
\* A variant of isAlreadyTagged that finds no content tagged
isAlreadyTaggedNever(content) == FALSE

\* isAlreadyTagged: content.includes('---\nLLM-tagged:')
isAlreadyTagged(content) == Includes(content, TagMarker)

\* new RegExp(source): the atoms of a source made of literal characters,
\* '\' escapes, '.' and the quantifiers '*' and '+'. An atom is a character
\* or "ANY", with q in {"one", "star", "plus"}. <<"error">> stands for the
\* SyntaxError 'Nothing to repeat'.
RegexError == <<"error">>

RECURSIVE ParseRegex(_, _)
ParseRegex(src, acc) ==
    IF src = <<>> THEN acc
    ELSE LET c == Head(src) IN
         IF c = "\\"
         THEN IF Len(src) < 2 THEN RegexError
              ELSE ParseRegex(SubSeq(src, 3, Len(src)),
                              Append(acc, [c |-> src[2], q |-> "one"]))
         ELSE IF c \in {"*", "+"}
         THEN IF acc = <<>> \/ acc[Len(acc)].q # "one" THEN RegexError
              ELSE ParseRegex(Tail(src),
                     [acc EXCEPT ![Len(acc)].q = IF c = "*" THEN "star" ELSE "plus"])
         ELSE ParseRegex(Tail(src),
                Append(acc, [c |-> IF c = "." THEN "ANY" ELSE c, q |-> "one"]))

\* '.' accepts every character but a line terminator
AtomAccepts(atom, ch) == (atom.c = "ANY" /\ ch # "\n") \/ atom.c = ch

\* The positions after one atom, matched from any position of P
AtomStep(atom, s, P) ==
    LET run(p, e) == \A r \in p..(e - 1) : AtomAccepts(atom, s[r])
    IN  IF atom.q = "one"
        THEN {p + 1 : p \in {x \in P : x <= Len(s) /\ AtomAccepts(atom, s[x])}}
        ELSE {e \in 1..(Len(s) + 1) :
                \E p \in P : /\ (IF atom.q = "plus" THEN e > p ELSE e >= p)
                             /\ run(p, e)}

\* The positions at which a match of atoms that starts at a position of P ends
RECURSIVE MatchEnds(_, _, _)
MatchEnds(atoms, s, P) ==
    IF atoms = <<>> \/ P = {} THEN P
    ELSE MatchEnds(Tail(atoms), s, AtomStep(Head(atoms), s, P))

\* \b of a regular expression, before (1-based) position i of s
WordBoundaryAt(s, i) ==
    LET before == i - 1 >= 1 /\ i - 1 <= Len(s) /\ IsWordChar(s[i - 1])
        after  == i >= 1 /\ i <= Len(s) /\ IsWordChar(s[i])
    IN  before # after

\* new RegExp(`\\b${cleanTag}\\b`, 'i') throws: the tag is put into the
\* source unescaped (tags without a backslash)
TagRegexThrows(cleanTag) == ParseRegex(cleanTag, <<>>) = RegexError

\* new RegExp(`\\b${cleanTag}\\b`, 'i').test(lowerContent), for a source
\* that compiles; both operands are lowercase
WholeWordTest(lowerContent, cleanTag) ==
    LET atoms == ParseRegex(cleanTag, <<>>) IN
    \E i \in 1..(Len(lowerContent) + 1) :
        /\ WordBoundaryAt(lowerContent, i)
        /\ \E e \in MatchEnds(atoms, lowerContent, {i}) :
              WordBoundaryAt(lowerContent, e)

\* tag.replace(/^#/, '').toLowerCase()
CleanTag(tag) == ToLowerCase(IF StartsWith(tag, HASH) THEN Tail(tag) ELSE tag)

\* tag.startsWith('#') ? tag : `#${tag}`
HashTag(tag) == IF StartsWith(tag, HASH) THEN tag ELSE HASH \o tag

\* addDeterministicTags throws a SyntaxError: the loop reaches a tag whose
\* regular expression does not compile
addDeterministicTagsThrows(availableTags) ==
    \E k \in DOMAIN availableTags : TagRegexThrows(CleanTag(availableTags[k]))

\* The loop of addDeterministicTags: the Set addedTags in insertion order
RECURSIVE AddedTags(_, _, _)
AddedTags(lowerContent, availableTags, acc) ==
    IF availableTags = <<>> THEN acc
    ELSE LET tag == Head(availableTags)
             hit == WholeWordTest(lowerContent, CleanTag(tag))
             nxt == IF hit /\ HashTag(tag) \notin Range(acc)
                    THEN Append(acc, HashTag(tag)) ELSE acc
         IN  AddedTags(lowerContent, Tail(availableTags), nxt)

\* Length of the match of /^---\n[\s\S]*?\n---\n/, 0 when there is none
FrontMatterLen(content) ==
    IF ~StartsWith(content, FrontMatterOpen) THEN 0
    ELSE LET k == IndexOf(content, FrontMatterClose, Len(FrontMatterOpen) + 1)
         IN  IF k = 0 THEN 0 ELSE k + Len(FrontMatterClose) - 1

\* A variant of addDeterministicTags that puts the tags in place of the
\* frontmatter
addDeterministicTagsDroppingFrontMatter(content, availableTags) ==
    LET addedTags == AddedTags(ToLowerCase(content), availableTags, <<>>)
    IN  IF Len(addedTags) = 0 THEN content
        ELSE Join(addedTags, SP) \o SP \o SliceFrom(content, FrontMatterLen(content))

addDeterministicTags(content, availableTags) ==
    LET addedTags == AddedTags(ToLowerCase(content), availableTags, <<>>)
        fmLen == FrontMatterLen(content)
    IN  IF Len(addedTags) = 0 THEN content
        ELSE IF fmLen > 0
        THEN SubSeq(content, 1, fmLen) \o Join(addedTags, SP) \o SP
                \o SliceFrom(content, fmLen)
        ELSE Join(addedTags, SP) \o SP \o content

\* The template literal of processContentWithOllama
TaggedBlock(timestamp, taggedSummary, processedContent) ==
    DIVIDER \o NL \o <<"L","L","M","-","t","a","g","g","e","d",":">> \o SP
        \o timestamp \o NL \o DIVIDER \o NL \o NL
        \o taggedSummary \o NL \o NL \o DIVIDER \o NL \o NL
        \o processedContent

\* A variant of processContentWithOllama that builds the tagged block from
\* an empty summary too
processContentWithOllamaAlwaysBlock(content, availableTags, response, timestamp) ==
    IF isAlreadyTagged(content) THEN content
    ELSE TaggedBlock(timestamp, Trim(response),
                     addDeterministicTags(content, availableTags))

\* processContentWithOllama once a model is selected and the request has
\* resolved with data.response = response, at the time timestamp
processContentWithOllama(content, availableTags, response, timestamp) ==
    IF isAlreadyTagged(content) THEN content
    ELSE LET processedContent == addDeterministicTags(content, availableTags)
             taggedSummary == Trim(response)
         IN  IF taggedSummary # <<>>
             THEN TaggedBlock(timestamp, taggedSummary, processedContent)
             ELSE processedContent

(***************************************************************************)
(* Untagging                                                               *)
(***************************************************************************)
\* End of the run of '\n' starting at position e + 1 (the \n+ of the pattern
\* has matched up to e)
RECURSIVE NewlineRunEnd(_, _)
NewlineRunEnd(s, e) ==
    IF e + 1 <= Len(s) /\ s[e + 1] = "\n" THEN NewlineRunEnd(s, e + 1) ELSE e

\* content.replace(/---\nLLM-tagged:[\s\S]*?---\n\n[\s\S]*?\n\n---\n+/, '')
RemoveTaggedSection(content) ==
    LET i == IndexOf(content, TagMarker, 1)
        j == IF i = 0 THEN 0 ELSE IndexOf(content, HeaderClose, i + Len(TagMarker))
        k == IF j = 0 THEN 0 ELSE IndexOf(content, SummaryClose, j + Len(HeaderClose))
    IN  IF k = 0 THEN content
        ELSE SubSeq(content, 1, i - 1)
                \o SliceFrom(content, NewlineRunEnd(content, k + Len(SummaryClose) - 1))

\* Length of the match of /^(#\w+\s*)+/ from position p, 0 when none
RECURSIVE SkipWhile(_, _, _)
SkipWhile(s, p, chars) ==
    IF p <= Len(s) /\ s[p] \in chars THEN SkipWhile(s, p + 1, chars) ELSE p

\* A variant of TagRunEnd for /^(#\w*\s*)+/: a '#' alone counts as a tag
TagRunEndLoose(s, p) ==
    IF p <= Len(s) /\ s[p] = "#"
    THEN SkipWhile(s, SkipWhile(s, p + 1, WordChars), SpaceChars)
    ELSE p

RECURSIVE TagRunEnd(_, _)
TagRunEnd(s, p) ==
    IF p + 1 <= Len(s) /\ s[p] = "#" /\ IsWordChar(s[p + 1])
    THEN TagRunEnd(s, SkipWhile(s, SkipWhile(s, p + 1, WordChars), SpaceChars))
    ELSE p

TagPatternLen(s) == TagRunEnd(s, 1) - 1

\* The body shared by untagCurrentDocument and untagAllDocuments:
\* the cleaned content and wasModified
Untag(content) ==
    LET afterBlock == IF isAlreadyTagged(content)
                      THEN RemoveTaggedSection(content) ELSE content
        blockModified == afterBlock # content
        n == TagPatternLen(afterBlock)
    IN  IF n > 0
        THEN [content |-> Trim(SliceFrom(afterBlock, n)), wasModified |-> TRUE]
        ELSE [content |-> afterBlock, wasModified |-> blockModified]

(***************************************************************************)
(* Exclusion and eligibility filter                                        *)
(***************************************************************************)
SLASH == <<"/">>

\* TFile.basename: the last path segment without its extension
Basename(path) ==
    LET slashes == {i \in 1..Len(path) : path[i] = "/"}
        start == IF slashes = {} THEN 1
                 ELSE (CHOOSE x \in slashes : \A y \in slashes : y <= x) + 1
        name == SubSeq(path, start, Len(path))
        dots == {i \in 1..Len(name) : name[i] = "."}
    IN  IF dots = {} THEN name
        ELSE SubSeq(name, 1, (CHOOSE x \in dots : \A y \in dots : y <= x) - 1)

\* .replace(/\./g, '\\.').replace(/\*/g, '.*') on the lowercased pattern
RECURSIVE EscapeDots(_)
EscapeDots(s) ==
    IF s = <<>> THEN <<>>
    ELSE (IF Head(s) = "." THEN <<"\\", ".">> ELSE <<Head(s)>>) \o EscapeDots(Tail(s))

RECURSIVE ExpandStars(_)
ExpandStars(s) ==
    IF s = <<>> THEN <<>>
    ELSE (IF Head(s) = "*" THEN <<".", "*">> ELSE <<Head(s)>>) \o ExpandStars(Tail(s))

RegexPattern(pattern) == ExpandStars(EscapeDots(ToLowerCase(pattern)))

\* new RegExp(`^${R}$|/${R}$|/${R}/`).test(filePath), R with atoms `atoms`
GlobRegexTest(atoms, filePath) ==
    LET n == Len(filePath)
        afterSlash == {i + 1 : i \in {x \in 1..n : filePath[x] = "/"}}
    IN  \/ (n + 1) \in MatchEnds(atoms, filePath, {1})
        \/ (n + 1) \in MatchEnds(atoms, filePath, afterSlash)
        \/ \E e \in MatchEnds(atoms, filePath, afterSlash) :
              e <= n /\ filePath[e] = "/"

\* One pattern of the loop of shouldProcessFile: "excluded" (return false),
\* "throws" (new RegExp fails) or "next"
PatternOutcome(pattern, path) ==
    LET filePath == ToLowerCase(path) IN
    IF Includes(pattern, <<"*">>)
    THEN LET atoms == ParseRegex(RegexPattern(pattern), <<>>)
         IN  IF atoms = RegexError THEN "throws"
             ELSE IF GlobRegexTest(atoms, filePath) THEN "excluded" ELSE "next"
    ELSE LET normalizedPattern == ToLowerCase(pattern)
         IN  IF ToLowerCase(Basename(path)) = normalizedPattern THEN "excluded"
             ELSE IF Includes(filePath, SLASH \o normalizedPattern \o SLASH)
             THEN "excluded" ELSE "next"

\* The loop over settings.excludePatterns: "excluded", "throws" or "pass"
RECURSIVE ExclusionOutcome(_, _)
ExclusionOutcome(excludePatterns, path) ==
    IF excludePatterns = <<>> THEN "pass"
    ELSE LET o == PatternOutcome(Head(excludePatterns), path)
         IN  IF o = "next" THEN ExclusionOutcome(Tail(excludePatterns), path)
             ELSE o

\* A variant of the modification-time check with >= in place of >
NeedsProcessingInclusive(path, fileMtime, taggedFiles) ==
    IF path \notin DOMAIN taggedFiles \/ taggedFiles[path] = 0 THEN TRUE
    ELSE fileMtime >= taggedFiles[path]

\* The modification-time check of shouldProcessFile; taggedFiles maps paths
\* to times, a missing entry and a 0 entry are both falsy
NeedsProcessing(path, fileMtime, taggedFiles) ==
    IF path \notin DOMAIN taggedFiles \/ taggedFiles[path] = 0 THEN TRUE
    ELSE fileMtime > taggedFiles[path]

\* shouldProcessFile, when it returns
shouldProcessFile(path, fileMtime, excludePatterns, taggedFiles) ==
    /\ ExclusionOutcome(excludePatterns, path) = "pass"
    /\ NeedsProcessing(path, fileMtime, taggedFiles)

\* shouldProcessFile throws instead of returning
shouldProcessFileThrows(path, excludePatterns) ==
    ExclusionOutcome(excludePatterns, path) = "throws"

(***************************************************************************)
(* The vault, the workspace and the plugin state                           *)
(***************************************************************************)
\* Bounds of the model
MaxTime == 2        \* Date.now() takes the values 1..MaxTime
MaxInvocations == 2 \* tagging and untagging calls in flight at once
MaxHandlerSets == 2 \* create/modify handler sets registered by enableAutoTagging
MaxUserActions == 3 \* edits, navigation, commands and settings changes by the user

\* The markdown files of the vault, in the order of getMarkdownFiles()
FileA == <<"d", "/", "a", ".", "m", "d">>
FileB == <<"x", "/", "d", "/", "b", ".", "m", "d">>
MarkdownFiles == <<FileA, FileB>>
Paths == Range(MarkdownFiles)
NoFile == <<>>
\* A file of the vault that is not a markdown document
ImageFile == <<"c", ".", "p", "n", "g">>

\* Contents a user types, vocabularies, exclusion lists, models, responses
UserContents == { <<"m", "l">>, <<"x">>, <<" ">> }
TagLists == { << <<"m", "l">> >> }
PatternLists == { <<>>, << <<"d">> >> }
NoModel == "null"
Models == {"llama"}
Responses == { <<>>, <<"s">> }
\* Bodies of the HTTP reply other than { response: string }: one that is
\* not JSON, and a JSON value whose `response` is missing or not a string
InvalidJSON == <<"invalid JSON">>
NoResponseField == <<"no response field">>
Replies == Responses \cup {InvalidJSON, NoResponseField}

\* new Date().toISOString(), one character per instant
Timestamp(t) == <<DigitChars[t + 1]>>

VARIABLES
    content,            \* vault: path -> content
    mtime,              \* vault: path -> file.stat.mtime
    now,                \* Date.now()
    settings,           \* LLMTaggerSettings
    autoTaggingEnabled, \* LLMTaggerPlugin.autoTaggingEnabled
    debouncers,         \* one debounced call (a path or NoFile) per handler set
    openLeaves,         \* paths shown in a MarkdownView leaf
    activeFile,         \* workspace.getActiveFile()
    lastOpenFile,       \* LLMTaggerPlugin.lastOpenFile
    closeTimers,        \* paths with a pending setTimeout of the file-open handler
    armedWhileUnset,    \* history: the paths of closeTimers whose timer was set
                        \* while settings.autoAddTags was false
    inv,                \* the calls in flight, by slot; skipped (the files a sweep
                        \* logged as skipped), failed (the files of the call
                        \* whose processing threw, with the await that threw),
                        \* excludedAtStart and eventWhileUnset
                        \* (the call's timer was set while settings.autoAddTags
                        \* was false) are bookkeeping
    userActions,        \* number of user actions so far
    pin,                \* input of a pure-function check
    pout,               \* output of a pure-function check
    tagWritten,         \* history: the paths for which a vault.modify of a tagging
                        \* call has resolved and whose record entry was not
                        \* deleted by untagging since
    selfArmed           \* history: the paths whose pending debounced call was
                        \* made pending by the modify event of a write of
                        \* autoTagFile or autoTagFileOnClose, the user not
                        \* having changed or untagged the document since

vars == <<content, mtime, now, settings, autoTaggingEnabled, debouncers,
          openLeaves, activeFile, lastOpenFile, closeTimers, armedWhileUnset, inv,
          userActions, pin, pout, tagWritten, selfArmed>>
vaultVars == <<content, mtime>>
workspaceVars == <<openLeaves, activeFile, lastOpenFile, closeTimers, armedWhileUnset>>
pureVars == <<pin, pout>>

Slots == 1..MaxInvocations

IdleInv == [kind |-> "none", pc |-> "idle", path |-> NoFile, tags |-> <<>>,
            initialContent |-> <<>>, taggedContent |-> <<>>, idx |-> 0,
            reply |-> <<>>, skipped |-> {}, failed |-> {}, excludedAtStart |-> FALSE,
            eventWhileUnset |-> FALSE]

FreeSlots == {i \in Slots : inv[i].pc = "idle"}
FreeSlot == Min(FreeSlots)

\* DEFAULT_SETTINGS merged with the loaded data: a model, a vocabulary and
\* an exclusion list are configured and auto-tagging is on
InitSettings ==
    [selectedModel |-> "llama", defaultTags |-> << <<"m", "l">> >>,
     autoAddTags |-> TRUE, taggedFiles |-> <<>>,
     excludePatterns |-> << <<"d">> >>]

\* The documents of the vault when the plugin loads
InitContent == [f \in Paths |-> <<"m", "l">>]

\* onload: loadSettings, then enableAutoTagging if settings.autoAddTags
MainInit ==
    /\ content = InitContent
    /\ mtime = [f \in Paths |-> 0]
    /\ now = 1
    /\ settings = InitSettings
    /\ autoTaggingEnabled = settings.autoAddTags
    /\ debouncers = IF settings.autoAddTags THEN <<NoFile>> ELSE <<>>
    /\ openLeaves = {}
    /\ activeFile = NoFile
    /\ lastOpenFile = NoFile
    /\ closeTimers = {}
    /\ armedWhileUnset = {}
    /\ inv = [i \in Slots |-> IdleInv]
    /\ userActions = 0
    /\ tagWritten = {}
    /\ selfArmed = {}

Init ==
    /\ MainInit
    /\ pin = <<>>
    /\ pout = <<>>

\* enableAutoTagging / disableAutoTagging as called by saveSettings: the new
\* value of <<autoTaggingEnabled, debouncers>> given the debouncers d
SyncAutoTagging(autoAddTags, d) ==
    IF autoAddTags
    THEN IF autoTaggingEnabled THEN <<TRUE, d>> ELSE <<TRUE, Append(d, NoFile)>>
    ELSE <<FALSE, d>>

\* saveSettings: persist, then enable or disable auto-tagging
saveSettings(newSettings) ==
    /\ settings' = newSettings
    /\ autoTaggingEnabled' = SyncAutoTagging(newSettings.autoAddTags, debouncers)[1]
    /\ debouncers' = SyncAutoTagging(newSettings.autoAddTags, debouncers)[2]

\* A variant of the handlers in which a pending call keeps its file
OnVaultModifyKeepPending(path) ==
    [k \in DOMAIN debouncers |->
        IF autoTaggingEnabled /\ debouncers[k] = NoFile THEN path ELSE debouncers[k]]

\* The create/modify handlers of every handler set: debouncedAutoTag(file)
OnVaultModify(path) ==
    [k \in DOMAIN debouncers |-> IF autoTaggingEnabled THEN path ELSE debouncers[k]]

\* selfArmed after the modify event of a vault.modify of path: the event of
\* a write of autoTagFile or autoTagFileOnClose makes path the pending file
\* of every debounced call, any other event replaces that pending file
SelfArmedAfterModify(path, byAutoTag) ==
    IF byAutoTag
    THEN IF autoTaggingEnabled THEN {path} ELSE selfArmed
    ELSE IF autoTaggingEnabled THEN {} ELSE selfArmed \ {path}

\* Every file the code asks shouldProcessFile about
ShouldProcess(path, mt, st) ==
    shouldProcessFile(path, mt[path], st.excludePatterns, st.taggedFiles)

IsExcluded(path, st) == ExclusionOutcome(st.excludePatterns, path) = "excluded"

(***************************************************************************)
(* Tagging calls: autoTagFile, autoTagFileOnClose, addTagsToDocuments and  *)
(* tagCurrentDocument. A call is suspended at its awaits: "read" (the      *)
(* initial vault.read), "llm" (the fetch), "json" (response.json(), the    *)
(* body of the reply being in reply), "reread" (the second vault.read),    *)
(* "write" (vault.modify) and "record" (modify has resolved).              *)
(***************************************************************************)
TaggingKinds == {"edit", "close", "sweep", "manual"}

\* The for loop of addTagsToDocuments from index `from`: the first file that
\* shouldProcessFile accepts (or throws on), Len + 1 when the loop ends
RECURSIVE SweepScan(_, _, _)
SweepScan(from, mt, st) ==
    IF from > Len(MarkdownFiles) THEN from
    ELSE IF shouldProcessFileThrows(MarkdownFiles[from], st.excludePatterns)
            \/ ShouldProcess(MarkdownFiles[from], mt, st)
    THEN from
    ELSE SweepScan(from + 1, mt, st)

\* A variant of the loops in which untag-all stops at an excluded document
NextFileStoppingAtExcluded(r, mt, st) ==
    IF /\ r.kind = "untagAll"
       /\ r.idx + 1 <= Len(MarkdownFiles)
       /\ ~IsExcluded(MarkdownFiles[r.idx + 1], st)
    THEN [r EXCEPT !.pc = "uread", !.path = MarkdownFiles[r.idx + 1],
                   !.idx = r.idx + 1, !.initialContent = <<>>,
                   !.taggedContent = <<>>, !.excludedAtStart = FALSE]
    ELSE IdleInv

\* The call r once its current file is done (return, continue or catch) in
\* a state with mtimes mt and settings st
NextFile(r, mt, st) ==
    IF r.kind = "sweep"
    THEN LET k == SweepScan(r.idx + 1, mt, st)
         IN  IF k > Len(MarkdownFiles) THEN IdleInv
             ELSE IF shouldProcessFileThrows(MarkdownFiles[k], st.excludePatterns)
             THEN IdleInv
             ELSE [r EXCEPT !.pc = "read", !.path = MarkdownFiles[k], !.idx = k,
                            !.initialContent = <<>>, !.taggedContent = <<>>,
                            !.reply = <<>>,
                            !.skipped = @ \cup {MarkdownFiles[j] : j \in (r.idx + 1)..(k - 1)},
                            !.excludedAtStart = IsExcluded(MarkdownFiles[k], st)]
    ELSE IF r.kind = "untagAll"
    THEN IF r.idx + 1 > Len(MarkdownFiles) THEN IdleInv
         ELSE [r EXCEPT !.pc = "uread", !.path = MarkdownFiles[r.idx + 1],
                        !.idx = r.idx + 1, !.initialContent = <<>>,
                        !.taggedContent = <<>>,
                        !.excludedAtStart = IsExcluded(MarkdownFiles[r.idx + 1], st)]
    ELSE IdleInv

\* Variants of the catch block: one in which the error ends the call, one
\* that goes on to write the deterministic-pass output
CaughtEndsCall(r, mt, st) == IdleInv

CaughtFallsBack(r, mt, st) ==
    [r EXCEPT !.pc = "write",
              !.taggedContent = addDeterministicTags(r.initialContent, r.tags)]

\* The call r after the catch block around its current file has handled an
\* error: the error is logged and the loop, if any, goes on
Caught(r, mt, st) ==
    NextFile([r EXCEPT !.failed = @ \cup {[path |-> r.path, at |-> r.pc,
                                            reply |-> r.reply]}], mt, st)

\* The guard shared by autoTagFile and autoTagFileOnClose
AutoTagGuard(path) ==
    /\ settings.autoAddTags
    /\ settings.selectedModel # NoModel
    /\ Len(settings.defaultTags) > 0
    /\ ~shouldProcessFileThrows(path, settings.excludePatterns)
    /\ ShouldProcess(path, mtime, settings)

\* isFileCurrentlyOpen
isFileCurrentlyOpen(path) == path \in openLeaves

StartCall(kind, path, tags) ==
    [IdleInv EXCEPT !.kind = kind, !.pc = "read", !.path = path, !.tags = tags,
                    !.excludedAtStart = IsExcluded(path, settings)]

\* The debounced call of handler set k runs: autoTagFile(file)
AutoTagFile(k) ==
    /\ k \in DOMAIN debouncers
    /\ debouncers[k] # NoFile
    /\ FreeSlots # {}
    /\ debouncers' = [debouncers EXCEPT ![k] = NoFile]
    /\ inv' = IF AutoTagGuard(debouncers[k]) /\ ~isFileCurrentlyOpen(debouncers[k])
              THEN [inv EXCEPT ![FreeSlot] =
                        StartCall("edit", debouncers[k], settings.defaultTags)]
              ELSE inv
    /\ selfArmed' = IF \E k2 \in DOMAIN debouncers :
                          k2 # k /\ debouncers[k2] = debouncers[k]
                    THEN selfArmed ELSE selfArmed \ {debouncers[k]}
    /\ UNCHANGED <<vaultVars, now, settings, autoTaggingEnabled, workspaceVars,
                   userActions, pureVars, tagWritten>>

\* The setTimeout of the file-open handler runs: autoTagFileOnClose(previousFile)
AutoTagFileOnClose(path) ==
    /\ path \in closeTimers
    /\ FreeSlots # {}
    /\ closeTimers' = closeTimers \ {path}
    /\ armedWhileUnset' = armedWhileUnset \ {path}
    /\ inv' = IF AutoTagGuard(path)
              THEN [inv EXCEPT ![FreeSlot] =
                        [StartCall("close", path, settings.defaultTags)
                            EXCEPT !.eventWhileUnset = path \in armedWhileUnset]]
              ELSE inv
    /\ UNCHANGED <<vaultVars, now, settings, autoTaggingEnabled, debouncers,
                   openLeaves, activeFile, lastOpenFile, userActions, pureVars, tagWritten, selfArmed>>

\* The OK button of getUserDefinedTags: the model and the tags are saved
ModalOk(model, tags) ==
    saveSettings([settings EXCEPT !.selectedModel = model, !.defaultTags = tags])

\* The command 'Tag current document' with the modal confirmed
TagCurrentDocument(model, tags) ==
    /\ userActions < MaxUserActions
    /\ userActions' = userActions + 1
    /\ activeFile # NoFile
    /\ FreeSlots # {}
    /\ ModalOk(model, tags)
    /\ inv' = [inv EXCEPT ![FreeSlot] = StartCall("manual", activeFile, tags)]
    /\ UNCHANGED <<vaultVars, now, workspaceVars, pureVars, tagWritten, selfArmed>>

\* The command 'Add tags to documents' with the modal confirmed
AddTagsToDocuments(model, tags) ==
    /\ userActions < MaxUserActions
    /\ userActions' = userActions + 1
    /\ settings.selectedModel # NoModel
    /\ FreeSlots # {}
    /\ ModalOk(model, tags)
    /\ inv' = [inv EXCEPT ![FreeSlot] =
                 NextFile([IdleInv EXCEPT !.kind = "sweep", !.tags = tags],
                          mtime, settings')]
    /\ UNCHANGED <<vaultVars, now, workspaceVars, pureVars, tagWritten, selfArmed>>

\* A variant of the model test of processContentWithOllama that is made
\* after the test for an existing tagged block
NoModelErrorAfterTaggedTest(selectedModel, doc) ==
    selectedModel = NoModel /\ ~isAlreadyTagged(doc)

\* processContentWithOllama throws 'No Ollama model selected' for the
\* content doc: the first statement of the function, before any other test
NoModelError(selectedModel, doc) == selectedModel = NoModel

\* The initial vault.read resolves; the code runs up to the fetch
ReadInitial(i) ==
    /\ inv[i].pc = "read"
    /\ LET r == inv[i]
           c == content[r.path]
           skip == IF r.kind \in {"edit", "close"}
                   THEN Trim(c) = <<>>          \* !initialContent.trim()
                   ELSE isAlreadyTagged(c)      \* sweep, manual
       IN  inv' = [inv EXCEPT ![i] =
                IF skip THEN NextFile(r, mtime, settings)
                ELSE IF NoModelError(settings.selectedModel, c)
                THEN Caught(r, mtime, settings)     \* throw, caught
                ELSE IF isAlreadyTagged(c)
                THEN [r EXCEPT !.pc = "reread", !.initialContent = c,
                               !.taggedContent = c]
                ELSE IF addDeterministicTagsThrows(r.tags)
                THEN Caught(r, mtime, settings)     \* throw, caught
                ELSE [r EXCEPT !.pc = "llm", !.initialContent = c]]
    /\ UNCHANGED <<vaultVars, now, settings, autoTaggingEnabled, debouncers,
                   workspaceVars, userActions, pureVars, tagWritten, selfArmed>>

\* The fetch resolves with a Response whose body is reply
FetchResolve(i, reply) ==
    /\ inv[i].pc = "llm"
    /\ inv' = [inv EXCEPT ![i].pc = "json", ![i].reply = reply]
    /\ UNCHANGED <<vaultVars, now, settings, autoTaggingEnabled, debouncers,
                   workspaceVars, userActions, pureVars, tagWritten, selfArmed>>

\* response.json() rejects (SyntaxError), or it resolves with data and
\* data.response.trim() throws a TypeError or returns the summary
LLMResolve(i) ==
    /\ inv[i].pc = "json"
    /\ inv' = [inv EXCEPT ![i] =
                IF inv[i].reply \in {InvalidJSON, NoResponseField}
                THEN Caught(inv[i], mtime, settings)
                ELSE [inv[i] EXCEPT !.pc = "reread",
                        !.taggedContent =
                            processContentWithOllama(inv[i].initialContent,
                                inv[i].tags, inv[i].reply, Timestamp(now))]]
    /\ UNCHANGED <<vaultVars, now, settings, autoTaggingEnabled, debouncers,
                   workspaceVars, userActions, pureVars, tagWritten, selfArmed>>

\* The fetch rejects (no connection): the catch block of the caller
LLMFail(i) ==
    /\ inv[i].pc = "llm"
    /\ inv' = [inv EXCEPT ![i] = Caught(inv[i], mtime, settings)]
    /\ UNCHANGED <<vaultVars, now, settings, autoTaggingEnabled, debouncers,
                   workspaceVars, userActions, pureVars, tagWritten, selfArmed>>

\* A vault.read or the vault.modify of a tagging call rejects (the file was
\* deleted, the disk is full): nothing is written, the catch block runs
VaultReject(i) ==
    /\ inv[i].pc \in {"read", "reread", "write"}
    /\ inv' = [inv EXCEPT ![i] = Caught(inv[i], mtime, settings)]
    /\ UNCHANGED <<vaultVars, now, settings, autoTaggingEnabled, debouncers,
                   workspaceVars, userActions, pureVars, tagWritten, selfArmed>>

\* Variants of the staleness comparison: one that never reports a change,
\* one that compares lengths only
ContentChangedNever(currentContent, initialContent) == FALSE

ContentChangedByLength(currentContent, initialContent) ==
    Len(currentContent) # Len(initialContent)

\* currentContent !== initialContent
ContentChanged(currentContent, initialContent) == currentContent # initialContent

\* The second vault.read resolves: the staleness check, then vault.modify
\* is called if tags were added
Reread(i) ==
    /\ inv[i].pc = "reread"
    /\ LET r == inv[i] IN
       inv' = [inv EXCEPT ![i] =
                IF ContentChanged(content[r.path], r.initialContent)
                THEN NextFile(r, mtime, settings)
                ELSE IF r.taggedContent # r.initialContent
                THEN [r EXCEPT !.pc = "write"]
                ELSE NextFile(r, mtime, settings)]
    /\ UNCHANGED <<vaultVars, now, settings, autoTaggingEnabled, debouncers,
                   workspaceVars, userActions, pureVars, tagWritten, selfArmed>>

\* vault.modify replaces the content; the vault raises 'modify'
Write(i) ==
    /\ inv[i].pc = "write"
    /\ content' = [content EXCEPT ![inv[i].path] = inv[i].taggedContent]
    /\ mtime' = [mtime EXCEPT ![inv[i].path] = now]
    /\ debouncers' = OnVaultModify(inv[i].path)
    /\ selfArmed' = SelfArmedAfterModify(inv[i].path, inv[i].kind \in {"edit", "close"})
    /\ inv' = [inv EXCEPT ![i].pc = "record"]
    /\ UNCHANGED <<now, settings, autoTaggingEnabled, workspaceVars, userActions, pureVars, tagWritten>>

\* A variant of the record assignment that keeps an entry the path has
SetTaggedKeepingEntry(taggedFiles, path, time) ==
    taggedFiles @@ (path :> time)

\* this.settings.taggedFiles[file.path] = Date.now()
SetTagged(taggedFiles, path, time) == (path :> time) @@ taggedFiles

\* After vault.modify: taggedFiles[path] = Date.now(); saveSettings()
Record(i) ==
    /\ inv[i].pc = "record"
    /\ saveSettings([settings EXCEPT !.taggedFiles =
            SetTagged(settings.taggedFiles, inv[i].path, now)])
    /\ inv' = [inv EXCEPT ![i] = NextFile(inv[i], mtime, settings')]
    /\ tagWritten' = tagWritten \cup {inv[i].path}
    /\ UNCHANGED <<vaultVars, now, workspaceVars, userActions, pureVars, selfArmed>>

(***************************************************************************)
(* Untagging calls: untagCurrentDocument and untagAllDocuments, suspended  *)
(* at "uread" (vault.read), "uwrite" (vault.modify) and "urecord" (modify  *)
(* has resolved).                                                          *)
(***************************************************************************)
\* A variant of the deletion that leaves the record as it is
DeleteEntryKept(taggedFiles, path) == taggedFiles

\* delete this.settings.taggedFiles[path]
DeleteEntry(taggedFiles, path) ==
    [p \in DOMAIN taggedFiles \ {path} |-> taggedFiles[p]]

\* The settings st are in memory when call r finishes its file: saveSettings
\* runs if the call ends here (untagAllDocuments saves after its loop)
FinishUntag(i, r, st, saveNow) ==
    LET next == NextFile(r, mtime, st) IN
    /\ inv' = [inv EXCEPT ![i] = next]
    /\ IF saveNow \/ (r.kind = "untagAll" /\ next = IdleInv)
       THEN saveSettings(st)
       ELSE settings' = st /\ UNCHANGED <<autoTaggingEnabled, debouncers>>

\* The command 'Untag current document'
UntagCurrentDocument ==
    /\ userActions < MaxUserActions
    /\ userActions' = userActions + 1
    /\ activeFile # NoFile
    /\ FreeSlots # {}
    /\ inv' = [inv EXCEPT ![FreeSlot] =
                 [IdleInv EXCEPT !.kind = "untag", !.pc = "uread", !.path = activeFile,
                                 !.excludedAtStart = IsExcluded(activeFile, settings)]]
    /\ UNCHANGED <<vaultVars, now, settings, autoTaggingEnabled, debouncers,
                   workspaceVars, pureVars, tagWritten, selfArmed>>

\* The command 'Untag all documents' with the modal confirmed
UntagAllDocuments ==
    /\ userActions < MaxUserActions
    /\ userActions' = userActions + 1
    /\ FreeSlots # {}
    /\ inv' = [inv EXCEPT ![FreeSlot] =
                 NextFile([IdleInv EXCEPT !.kind = "untagAll"], mtime, settings)]
    /\ UNCHANGED <<vaultVars, now, settings, autoTaggingEnabled, debouncers,
                   workspaceVars, pureVars, tagWritten, selfArmed>>

\* vault.read resolves; the cleaned content is computed and vault.modify is
\* called if wasModified
UntagRead(i) ==
    /\ inv[i].pc = "uread"
    /\ LET r == inv[i]
           u == Untag(content[r.path])
       IN  IF u.wasModified
           THEN /\ inv' = [inv EXCEPT ![i].pc = "uwrite",
                                      ![i].initialContent = content[r.path],
                                      ![i].taggedContent = u.content]
                /\ UNCHANGED <<settings, autoTaggingEnabled, debouncers>>
           ELSE FinishUntag(i, r, settings, FALSE)
    /\ UNCHANGED <<vaultVars, now, workspaceVars, userActions, pureVars, tagWritten, selfArmed>>

\* vault.modify replaces the content; the vault raises 'modify'
UntagWrite(i) ==
    /\ inv[i].pc = "uwrite"
    /\ content' = [content EXCEPT ![inv[i].path] = inv[i].taggedContent]
    /\ mtime' = [mtime EXCEPT ![inv[i].path] = now]
    /\ debouncers' = OnVaultModify(inv[i].path)
    /\ selfArmed' = SelfArmedAfterModify(inv[i].path, FALSE)
    /\ inv' = [inv EXCEPT ![i].pc = "urecord"]
    /\ UNCHANGED <<now, settings, autoTaggingEnabled, workspaceVars, userActions, pureVars, tagWritten>>

\* The vault.read or the vault.modify of an untagging call rejects: nothing
\* is written, the catch block runs (untagAllDocuments saves after its loop)
UntagVaultReject(i) ==
    /\ inv[i].pc \in {"uread", "uwrite"}
    /\ LET next == Caught(inv[i], mtime, settings) IN
       /\ inv' = [inv EXCEPT ![i] = next]
       /\ IF inv[i].kind = "untagAll" /\ next = IdleInv
          THEN saveSettings(settings)
          ELSE UNCHANGED <<settings, autoTaggingEnabled, debouncers>>
    /\ UNCHANGED <<vaultVars, now, workspaceVars, userActions, pureVars, tagWritten, selfArmed>>

\* After vault.modify: the record entry is deleted (and saved)
UntagRecord(i) ==
    /\ inv[i].pc = "urecord"
    /\ FinishUntag(i, inv[i],
                   [settings EXCEPT !.taggedFiles = DeleteEntry(@, inv[i].path)],
                   inv[i].kind = "untag")
    /\ tagWritten' = tagWritten \ {inv[i].path}
    /\ selfArmed' = selfArmed \ {inv[i].path}
    /\ UNCHANGED <<vaultVars, now, workspaceVars, userActions, pureVars>>

(***************************************************************************)
(* The user and the clock                                                  *)
(***************************************************************************)
Tick ==
    /\ now < MaxTime
    /\ now' = now + 1
    /\ UNCHANGED <<vaultVars, settings, autoTaggingEnabled, debouncers,
                   workspaceVars, inv, userActions, pureVars, tagWritten, selfArmed>>

\* The user changes a document; the vault raises 'modify'
UserEdit(path, c) ==
    /\ userActions < MaxUserActions
    /\ c # content[path]
    /\ content' = [content EXCEPT ![path] = c]
    /\ mtime' = [mtime EXCEPT ![path] = now]
    /\ debouncers' = OnVaultModify(path)
    /\ selfArmed' = SelfArmedAfterModify(path, FALSE)
    /\ userActions' = userActions + 1
    /\ UNCHANGED <<now, settings, autoTaggingEnabled, workspaceVars, inv, pureVars, tagWritten>>

\* TFile.extension: the characters after the last '.' of the path
FileExtension(path) ==
    LET dots == {i \in 1..Len(path) : path[i] = "."}
    IN  IF dots = {} THEN <<>>
        ELSE SubSeq(path, (CHOOSE x \in dots : \A y \in dots : y <= x) + 1, Len(path))

\* file.extension === 'md'
IsMarkdown(path) == FileExtension(path) = <<"m", "d">>

\* A variant of the 'file-open' handler without the test of the extension
OnFileOpenAnyFile(file) ==
    /\ IF lastOpenFile # NoFile /\ lastOpenFile # file
       THEN /\ lastOpenFile \notin closeTimers
            /\ closeTimers' = closeTimers \cup {lastOpenFile}
            /\ armedWhileUnset' = IF settings.autoAddTags THEN armedWhileUnset
                                  ELSE armedWhileUnset \cup {lastOpenFile}
       ELSE UNCHANGED <<closeTimers, armedWhileUnset>>
    /\ lastOpenFile' = file

\* The 'file-open' handler of onload, for the newly active file (or NoFile);
\* at most one close timer per path is pending
OnFileOpen(file) ==
    /\ IF lastOpenFile # NoFile /\ lastOpenFile # file /\ IsMarkdown(lastOpenFile)
       THEN /\ lastOpenFile \notin closeTimers
            /\ closeTimers' = closeTimers \cup {lastOpenFile}
            /\ armedWhileUnset' = IF settings.autoAddTags THEN armedWhileUnset
                                  ELSE armedWhileUnset \cup {lastOpenFile}
       ELSE UNCHANGED <<closeTimers, armedWhileUnset>>
    /\ lastOpenFile' = file

\* The user opens a file in the active leaf, replacing what it shows
OpenInActiveLeaf(path) ==
    /\ userActions < MaxUserActions
    /\ userActions' = userActions + 1
    /\ path # activeFile
    /\ openLeaves' = (openLeaves \ {activeFile}) \cup {path}
    /\ activeFile' = path
    /\ OnFileOpen(path)
    /\ UNCHANGED <<vaultVars, now, settings, autoTaggingEnabled, debouncers,
                   inv, pureVars, tagWritten, selfArmed>>

\* The user opens a file in a new leaf, or focuses a leaf that shows it
OpenInOtherLeaf(path) ==
    /\ userActions < MaxUserActions
    /\ userActions' = userActions + 1
    /\ path # activeFile
    /\ activeFile # NoFile
    /\ openLeaves' = openLeaves \cup {path}
    /\ activeFile' = path
    /\ OnFileOpen(path)
    /\ UNCHANGED <<vaultVars, now, settings, autoTaggingEnabled, debouncers,
                   inv, pureVars, tagWritten, selfArmed>>

\* The user closes the active leaf; no leaf is active afterwards
CloseActiveLeaf ==
    /\ userActions < MaxUserActions
    /\ userActions' = userActions + 1
    /\ activeFile # NoFile
    /\ openLeaves' = openLeaves \ {activeFile}
    /\ activeFile' = NoFile
    /\ OnFileOpen(NoFile)
    /\ UNCHANGED <<vaultVars, now, settings, autoTaggingEnabled, debouncers,
                   inv, pureVars, tagWritten, selfArmed>>

\* The user focuses another leaf that shows the active file: 'file-open' is
\* raised for the same file
RefocusActiveFile ==
    /\ userActions < MaxUserActions
    /\ userActions' = userActions + 1
    /\ activeFile # NoFile
    /\ OnFileOpen(activeFile)
    /\ UNCHANGED <<vaultVars, now, settings, autoTaggingEnabled, debouncers,
                   openLeaves, activeFile, inv, pureVars, tagWritten, selfArmed>>

\* The settings tab: each onChange sets a field and calls saveSettings
SetSelectedModel(m) ==
    /\ userActions < MaxUserActions
    /\ userActions' = userActions + 1
    /\ m # settings.selectedModel
    /\ saveSettings([settings EXCEPT !.selectedModel = m])
    /\ UNCHANGED <<vaultVars, now, workspaceVars, inv, pureVars, tagWritten, selfArmed>>

SetAutoAddTags(v) ==
    /\ userActions < MaxUserActions
    /\ userActions' = userActions + 1
    /\ v # settings.autoAddTags
    /\ v => Len(debouncers) < MaxHandlerSets
    /\ saveSettings([settings EXCEPT !.autoAddTags = v])
    /\ UNCHANGED <<vaultVars, now, workspaceVars, inv, pureVars, tagWritten, selfArmed>>

SetExcludePatterns(ps) ==
    /\ userActions < MaxUserActions
    /\ userActions' = userActions + 1
    /\ ps # settings.excludePatterns
    /\ saveSettings([settings EXCEPT !.excludePatterns = ps])
    /\ UNCHANGED <<vaultVars, now, workspaceVars, inv, pureVars, tagWritten, selfArmed>>

Next ==
    \/ Tick
    \/ \E path \in Paths, c \in UserContents : UserEdit(path, c)
    \/ \E path \in Paths : OpenInActiveLeaf(path)
    \/ \E path \in Paths : OpenInOtherLeaf(path)
    \/ CloseActiveLeaf
    \/ \E m \in Models \cup {NoModel} : SetSelectedModel(m)
    \/ \E v \in BOOLEAN : SetAutoAddTags(v)
    \/ \E ps \in PatternLists : SetExcludePatterns(ps)
    \/ \E k \in 1..MaxHandlerSets : AutoTagFile(k)
    \/ \E path \in Paths : AutoTagFileOnClose(path)
    \/ \E m \in Models, t \in TagLists : TagCurrentDocument(m, t)
    \/ \E m \in Models, t \in TagLists : AddTagsToDocuments(m, t)
    \/ \E i \in Slots : ReadInitial(i)
    \/ \E i \in Slots, r \in Replies : FetchResolve(i, r)
    \/ \E i \in Slots : LLMResolve(i)
    \/ \E i \in Slots : LLMFail(i)
    \/ \E i \in Slots : VaultReject(i)
    \/ \E i \in Slots : Reread(i)
    \/ \E i \in Slots : Write(i)
    \/ \E i \in Slots : Record(i)
    \/ UntagCurrentDocument
    \/ UntagAllDocuments
    \/ \E i \in Slots : UntagRead(i)
    \/ \E i \in Slots : UntagWrite(i)
    \/ \E i \in Slots : UntagVaultReject(i)
    \/ \E i \in Slots : UntagRecord(i)

Spec == Init /\ [][Next]_vars

\* onload when the saved data leave autoAddTags at its DEFAULT_SETTINGS value:
\* enableAutoTagging has not run and no vault handler is registered
FlagOffInit ==
    /\ content = InitContent
    /\ mtime = [f \in Paths |-> 0]
    /\ now = 1
    /\ settings = [InitSettings EXCEPT !.autoAddTags = FALSE]
    /\ autoTaggingEnabled = FALSE
    /\ debouncers = <<>>
    /\ openLeaves = {}
    /\ activeFile = NoFile
    /\ lastOpenFile = NoFile
    /\ closeTimers = {}
    /\ armedWhileUnset = {}
    /\ inv = [i \in Slots |-> IdleInv]
    /\ userActions = 0
    /\ tagWritten = {}
    /\ selfArmed = {}
    /\ pin = <<>>
    /\ pout = <<>>

FlagOffSpec == FlagOffInit /\ [][Next]_vars

(***************************************************************************)
(* WorkspaceSpec: the 'file-open' handler and the close-triggered calls in *)
(* a workspace that also shows a file that is not a markdown document.     *)
(***************************************************************************)
AllFiles == Paths \cup {ImageFile}

WorkspaceNext ==
    \/ \E path \in AllFiles : OpenInActiveLeaf(path)
    \/ \E path \in AllFiles : OpenInOtherLeaf(path)
    \/ CloseActiveLeaf
    \/ RefocusActiveFile
    \/ \E path \in Paths : AutoTagFileOnClose(path)
    \/ \E i \in Slots : ReadInitial(i)
    \/ \E i \in Slots, r \in Replies : FetchResolve(i, r)
    \/ \E i \in Slots : LLMResolve(i)
    \/ \E i \in Slots : LLMFail(i)
    \/ \E i \in Slots : Reread(i)
    \/ \E i \in Slots : Write(i)
    \/ \E i \in Slots : Record(i)

WorkspaceSpec == Init /\ [][WorkspaceNext]_vars

mainVars == <<content, mtime, now, settings, autoTaggingEnabled, debouncers,
              openLeaves, activeFile, lastOpenFile, closeTimers, armedWhileUnset, inv,
              userActions, tagWritten, selfArmed>>

(***************************************************************************)
(* Contents built from pieces, for the specifications that apply the pure  *)
(* functions and the untagging handlers to many documents.                 *)
(***************************************************************************)
MaxPieces == 3      \* a document is a concatenation of at most MaxPieces pieces

FrontMatterBlock == FrontMatterOpen \o <<"t">> \o FrontMatterClose

PlainPieces ==
    { <<"m", "l">>, <<"M", "L">>, <<"x">>, SP, NL, HASH, FrontMatterBlock }

RECURSIVE Concats(_, _)
Concats(pieces, n) ==
    IF n = 0 THEN { <<>> }
    ELSE LET shorter == Concats(pieces, n - 1)
         IN  shorter \cup { c \o p : c \in shorter, p \in pieces }

(***************************************************************************)
(* SynthSpec: processContentWithOllama applied to a document, a vocabulary *)
(* and a model response; then applied again to its own output, or          *)
(* followed by the content cleaning of the untagging commands.             *)
(***************************************************************************)
SynthContents == Concats(PlainPieces, MaxPieces)

SynthTagLists ==
    { <<>>, << <<"m", "l">> >>, << <<"#", "m", "l">>, <<"x">> >> }

SynthResponses ==
    { <<>>, <<" ">>, <<"s">>, <<"s">> \o SummaryClose \o <<"r">> }

SynthInit ==
    /\ MainInit
    /\ pin \in [content : SynthContents, tags : SynthTagLists,
                response : SynthResponses]
    /\ pout = [stage |-> "input", first |-> <<>>, second |-> <<>>,
               blockRemoved |-> <<>>,
               untagged |-> [content |-> <<>>, wasModified |-> FALSE]]

Synthesize ==
    /\ pout.stage = "input"
    /\ pout' = [pout EXCEPT !.stage = "synth",
                  !.first = processContentWithOllama(pin.content, pin.tags,
                                                     pin.response, Timestamp(1))]
    /\ UNCHANGED <<mainVars, pin>>

SynthesizeAgain ==
    /\ pout.stage = "synth"
    /\ pout' = [pout EXCEPT !.stage = "again",
                  !.second = processContentWithOllama(pout.first, pin.tags,
                                                      pin.response, Timestamp(2))]
    /\ UNCHANGED <<mainVars, pin>>

UntagSynthesized ==
    /\ pout.stage = "synth"
    /\ pout' = [pout EXCEPT !.stage = "untagged",
                  !.blockRemoved = IF isAlreadyTagged(pout.first)
                                   THEN RemoveTaggedSection(pout.first)
                                   ELSE pout.first,
                  !.untagged = Untag(pout.first)]
    /\ UNCHANGED <<mainVars, pin>>

SynthNext == Synthesize \/ SynthesizeAgain \/ UntagSynthesized

SynthSpec == SynthInit /\ [][SynthNext]_vars

(***************************************************************************)
(* MatchSpec: the deterministic pass, addDeterministicTags, applied to a   *)
(* content of a few words and a vocabulary of a few tags.                  *)
(***************************************************************************)
MaxWords == 2       \* a content has at most MaxWords words
MaxTags == 2        \* a vocabulary has at most MaxTags tags

MatchWords ==
    { <<"m", "l">>, <<"M", "L">>, <<"h", "m", "l">>, <<"m", "x", "l">>,
      <<"m", ".", "l">>, <<"l", "+", "+">> }

MatchTags ==
    { <<"m", "l">>, <<"#", "m", "l">>, <<"M", "L">>, <<"m", ".", "l">>,
      <<"l", "+", "+">> }

RECURSIVE Lists(_, _)
Lists(S, n) ==
    IF n = 0 THEN { <<>> }
    ELSE LET shorter == Lists(S, n - 1)
         IN  shorter \cup { Append(l, x) : l \in shorter, x \in S }

MatchContents == { Join(ws, SP) : ws \in Lists(MatchWords, MaxWords) }

MatchInit ==
    /\ MainInit
    /\ pin \in [content : MatchContents, tags : Lists(MatchTags, MaxTags)]
    /\ pout = [stage |-> "input", threw |-> FALSE, addedTags |-> <<>>,
               result |-> <<>>]

\* addDeterministicTags(content, availableTags): it throws, or it returns
\* result, having collected addedTags
MatchVocabulary ==
    /\ pout.stage = "input"
    /\ pout' = IF addDeterministicTagsThrows(pin.tags)
               THEN [pout EXCEPT !.stage = "matched", !.threw = TRUE]
               ELSE [pout EXCEPT !.stage = "matched",
                        !.addedTags = AddedTags(ToLowerCase(pin.content), pin.tags, <<>>),
                        !.result = addDeterministicTags(pin.content, pin.tags)]
    /\ UNCHANGED <<mainVars, pin>>

MatchNext == MatchVocabulary

MatchSpec == MatchInit /\ [][MatchNext]_vars

(***************************************************************************)
(* FilterSpec: the exclusion test of shouldProcessFile applied to one      *)
(* pattern and one path.                                                   *)
(***************************************************************************)
MaxDepth == 2       \* a path has at most MaxDepth folders

SegmentNames ==
    { <<"d">>, <<"D">>, <<"d", "2">>, <<"d", "d">>, <<"d", "+">>, <<"e">> }

RECURSIVE FolderLists(_)
FolderLists(n) ==
    IF n = 0 THEN { <<>> }
    ELSE LET shorter == FolderLists(n - 1)
         IN  shorter \cup { Append(fs, g) : fs \in shorter, g \in SegmentNames }

Extension == <<".", "m", "d">>

FilterPaths ==
    { Join(Append(fs, b \o Extension), SLASH) :
        fs \in FolderLists(MaxDepth), b \in SegmentNames }

STAR == <<"*">>

LiteralPatterns == { <<"d">>, <<"D">>, <<"d", "2">>, <<"e">>, <<"d", ".", "m", "d">> }

WildcardPatterns ==
    { <<"d", "/", "*">>, <<"D", "/", "*">>, <<"*", "d">>, <<"d", "*">>,
      <<"*", ".", "m", "d">>, <<"e", "/", "*", "/", "d", "*">>,
      <<"d", "+", "/", "*">> }

FilterInit ==
    /\ MainInit
    /\ pin \in [pattern : LiteralPatterns \cup WildcardPatterns, path : FilterPaths]
    /\ pout = "input"

Decide ==
    /\ pout = "input"
    /\ pout' = PatternOutcome(pin.pattern, pin.path)
    /\ UNCHANGED <<mainVars, pin>>

FilterNext == Decide

FilterSpec == FilterInit /\ [][FilterNext]_vars

(***************************************************************************)
(* UntagSpec: the untagging commands run on a vault whose first document   *)
(* is any content built from the pieces, tagged blocks included.           *)
(***************************************************************************)
UntagPieces == (PlainPieces \ { <<"M", "L">> }) \cup { TagMarker, HeaderClose, SummaryClose }

UntagContents == Concats(UntagPieces, MaxPieces)

UntagInit ==
    /\ content \in { [InitContent EXCEPT ![FileA] = c] : c \in UntagContents }
    /\ mtime = [f \in Paths |-> 0]
    /\ now = 1
    /\ settings \in { [InitSettings EXCEPT !.taggedFiles = tf] :
                        tf \in { <<>>, FileA :> 1 } }
    /\ autoTaggingEnabled = settings.autoAddTags
    /\ debouncers = <<NoFile>>
    /\ openLeaves = {FileA}
    /\ activeFile = FileA
    /\ lastOpenFile = FileA
    /\ closeTimers = {}
    /\ armedWhileUnset = {}
    /\ inv = [i \in Slots |-> IdleInv]
    /\ userActions = 0
    /\ tagWritten = DOMAIN settings.taggedFiles
    /\ selfArmed = {}
    /\ pin = <<>>
    /\ pout = <<>>

UntagNext ==
    \/ UntagCurrentDocument
    \/ UntagAllDocuments
    \/ \E i \in Slots : UntagRead(i)
    \/ \E i \in Slots : UntagWrite(i)
    \/ \E i \in Slots : UntagVaultReject(i)
    \/ \E i \in Slots : UntagRecord(i)

UntagSpec == UntagInit /\ [][UntagNext]_vars

(***************************************************************************)
(* Properties of the tagging calls (Spec)                                  *)
(***************************************************************************)
\* The file a call is working on has been dropped by the call: the call has
\* ended, or it is a sweep that has moved to a later file
MovedOn(r, r2) ==
    \/ r2 = IdleInv
    \/ r.kind = "sweep" /\ r2.kind = "sweep" /\ r2.idx > r.idx /\ r2.pc = "read"

\* C1 (staleness abort): in every tagging path, when the re-read returns a
\* content different from the one read initially, the call issues no write:
\* the step leaves every document and every record entry as they were, and
\* the call is done with the file.
StalenessAbort ==
    [][\A i \in Slots :
          (/\ inv[i].kind \in TaggingKinds
           /\ inv[i].pc = "reread"
           /\ inv'[i] # inv[i]
           /\ content[inv[i].path] # inv[i].initialContent)
          => /\ content' = content
             /\ mtime' = mtime
             /\ settings'.taggedFiles = settings.taggedFiles
             /\ MovedOn(inv[i], inv'[i])]_vars

\* A call that has computed a tagged content is about to re-read a document
\* that was edited after its initial read
StalenessAbortWitness ==
    \E i \in Slots :
        /\ inv[i].kind \in TaggingKinds
        /\ inv[i].pc = "reread"
        /\ inv[i].taggedContent # inv[i].initialContent
        /\ content[inv[i].path] # inv[i].initialContent

\* C2 as stated (no concurrent edit is lost): a tagging write never replaces
\* a content that differs from the one the call read initially.
NoConcurrentEditLost ==
    [][\A i \in Slots :
          (/\ inv[i].kind \in TaggingKinds
           /\ inv[i].pc = "write"
           /\ inv'[i].pc = "record")
          => content[inv[i].path] = inv[i].initialContent]_vars

\* C2 (amended): a tagging call issues its write only at its re-read, and
\* only if the re-read returned the content it read initially, so no edit
\* made before the re-read is lost; an edit made between the re-read and
\* the write is replaced.
WriteOnlyAfterMatchingReread ==
    [][\A i \in Slots :
          (/\ inv'[i].kind \in TaggingKinds
           /\ inv'[i].pc = "write"
           /\ inv[i].pc # "write")
          => /\ inv[i].pc = "reread"
             /\ content[inv[i].path] = inv[i].initialContent
             /\ inv'[i].initialContent = inv[i].initialContent
             /\ content' = content]_vars

\* A write has been issued and the document was edited after the re-read
WriteWindowWitness ==
    \E i \in Slots :
        /\ inv[i].kind \in TaggingKinds
        /\ inv[i].pc = "write"
        /\ content[inv[i].path] # inv[i].initialContent

(***************************************************************************)
(* Properties of synthesis and untagging (SynthSpec, UntagSpec)            *)
(***************************************************************************)
\* sub occurs in s as a contiguous substring
Contains(s, sub) ==
    \E i \in 1..(Len(s) + 1) :
        /\ i + Len(sub) - 1 <= Len(s)
        /\ SubSeq(s, i, i + Len(sub) - 1) = sub

HasMarker(c) == Contains(c, TagMarker)

\* c begins with a hashtag: '#' followed by a word character
BeginsWithHashtagRun(c) == Len(c) >= 2 /\ c[1] = "#" /\ IsWordChar(c[2])

\* C3 as stated (idempotence of tagging): for every content, vocabulary and
\* response, synthesis applied to the output of synthesis returns that
\* output unchanged.
SynthesisIdempotent == pout.stage = "again" => pout.second = pout.first

\* C4 as stated (round trip): for a content without marker and without a
\* leading hashtag run, the content that untagging produces from the output
\* of synthesis contains the original content as a contiguous substring.
RoundTrip ==
    (/\ pout.stage = "untagged"
     /\ ~HasMarker(pin.content)
     /\ ~BeginsWithHashtagRun(pin.content))
    => Contains(pout.untagged.content, pin.content)

\* C6 as stated (original content preserved): for a content without marker
\* and a non-empty response, the output of synthesis contains the content
\* as a contiguous substring.
OriginalContained ==
    (/\ pout.stage = "synth"
     /\ ~HasMarker(pin.content)
     /\ pin.response # <<>>)
    => Contains(pout.first, pin.content)

\* f is a frontmatter block: it opens with '---\n' and closes with '\n---\n'
IsFrontMatter(f) ==
    /\ StartsWith(f, FrontMatterOpen)
    /\ Len(f) >= Len(FrontMatterOpen) + Len(FrontMatterClose)
    /\ SubSeq(f, Len(f) - Len(FrontMatterClose) + 1, Len(f)) = FrontMatterClose

\* g is a run of hashtags, each followed by one space
IsInsertedTags(g) ==
    /\ Len(g) >= 3
    /\ g[1] = "#"
    /\ g[Len(g)] = " "
    /\ \A i \in 1..Len(g) :
          /\ g[i] \in WordChars \cup {"#", " "}
          /\ g[i] = "#" => (i < Len(g) /\ IsWordChar(g[i + 1]))
          /\ g[i] = " " => (i = Len(g) \/ g[i + 1] = "#")

\* out ends with the frontmatter block of c, inserted hashtags, and the
\* rest of c
SplitAroundTags(c, out) ==
    \E k \in 1..Len(c), g \in 1..Len(out) :
        /\ Len(out) >= Len(c) + g
        /\ IsFrontMatter(SubSeq(c, 1, k))
        /\ LET from == Len(out) - Len(c) - g
           IN  /\ SubSeq(out, from + 1, from + k) = SubSeq(c, 1, k)
               /\ IsInsertedTags(SubSeq(out, from + k + 1, from + k + g))
               /\ SubSeq(out, from + k + g + 1, Len(out)) = SubSeq(c, k + 1, Len(c))

\* C6 (amended): for a content without marker and a non-empty response, the
\* output of synthesis contains the content as a contiguous substring,
\* unless the content begins with a frontmatter block and hashtags are
\* inserted after it: then the output ends with the frontmatter block, the
\* hashtags and the rest of the content, each verbatim.
OriginalPreservedAroundTags ==
    (/\ pout.stage = "synth"
     /\ ~HasMarker(pin.content)
     /\ pin.response # <<>>)
    => \/ Contains(pout.first, pin.content)
       \/ SplitAroundTags(pin.content, pout.first)

\* A tagged block was written in front of a content whose frontmatter is
\* followed by inserted hashtags
OriginalPreservedWitness ==
    /\ pout.stage = "synth"
    /\ Trim(pin.response) # <<>>
    /\ HasMarker(pout.first)
    /\ ~Contains(pout.first, pin.content)
    /\ SplitAroundTags(pin.content, pout.first)

\* The untagging call r is done with its file without a write
UntagMovedOn(r, r2) ==
    \/ r2 = IdleInv
    \/ r.kind = "untagAll" /\ r2.kind = "untagAll" /\ r2.idx > r.idx /\ r2.pc = "uread"

\* C5 (untag is safe): when an untagging command, for the current document
\* or in the batch, reads a content without marker that does not begin with
\* a hashtag run, it computes (C, false): it issues no write, every
\* document and every record entry stay as they were.
UntagIsSafe ==
    [][\A i \in Slots :
          (/\ inv[i].pc = "uread"
           /\ inv'[i] # inv[i]
           /\ ~HasMarker(content[inv[i].path])
           /\ ~BeginsWithHashtagRun(content[inv[i].path]))
          => /\ Untag(content[inv[i].path]) =
                    [content |-> content[inv[i].path], wasModified |-> FALSE]
             /\ content' = content
             /\ mtime' = mtime
             /\ settings'.taggedFiles = settings.taggedFiles
             /\ UntagMovedOn(inv[i], inv'[i])]_vars

\* An untagging call is about to read a recorded document that has a '#'
\* and dashes in it, but no marker and no leading hashtag
UntagIsSafeWitness ==
    \E i \in Slots :
        /\ inv[i].pc = "uread"
        /\ inv[i].path \in DOMAIN settings.taggedFiles
        /\ ~HasMarker(content[inv[i].path])
        /\ ~BeginsWithHashtagRun(content[inv[i].path])
        /\ Contains(content[inv[i].path], HASH)
        /\ Contains(content[inv[i].path], DIVIDER)

(***************************************************************************)
(* Properties of the eligibility filter (Spec, FilterSpec)                 *)
(***************************************************************************)
\* The index of the file a sweep in slot i is at before and after a step:
\* 0 before the sweep starts, Len(MarkdownFiles) + 1 once it has ended
SweepFrom(i) == IF inv[i].kind = "sweep" THEN inv[i].idx ELSE 0

SweepTo(i) == IF inv'[i].kind = "sweep" THEN inv'[i].idx ELSE Len(MarkdownFiles) + 1

\* After the step, f has a record entry that is not older than its
\* modification time
UnmodifiedSinceTagged(f) ==
    /\ f \in DOMAIN settings'.taggedFiles
    /\ mtime'[f] <= settings'.taggedFiles[f]

\* C7 (eligibility dedup): whenever a batch sweep moves through the file
\* list, every non-excluded file it passes over has a record entry T with
\* mtime <= T and is left unread and unwritten, and a non-excluded file it
\* stops at to process has no entry or has mtime > T; a sweep that ends on
\* the spot has passed over every file.
EligibilityDedup ==
    [][/\ \A i \in Slots :
            (/\ inv[i].kind = "sweep" \/ inv'[i].kind = "sweep"
             /\ inv'[i] # inv[i]
             /\ SweepFrom(i) # SweepTo(i))
            => /\ \A k \in (SweepFrom(i) + 1)..(SweepTo(i) - 1) :
                     LET f == MarkdownFiles[k] IN
                     /\ ~IsExcluded(f, settings') => UnmodifiedSinceTagged(f)
                     /\ content'[f] = content[f]
               /\ SweepTo(i) <= Len(MarkdownFiles) =>
                     LET f == MarkdownFiles[SweepTo(i)] IN
                     /\ inv'[i].pc = "read"
                     /\ inv'[i].path = f
                     /\ ~IsExcluded(f, settings') => ~UnmodifiedSinceTagged(f)
       /\ ((\E m \in Models, t \in TagLists : AddTagsToDocuments(m, t)) /\ inv' = inv)
            => \A f \in Paths :
                  ~IsExcluded(f, settings') => UnmodifiedSinceTagged(f)]_vars

\* A sweep has passed over the first file, which is not excluded and has a
\* record entry not older than its modification time, and has stopped at
\* another file
EligibilityDedupWitness ==
    \E i \in Slots :
        /\ inv[i].kind = "sweep"
        /\ inv[i].pc = "read"
        /\ FileA \in inv[i].skipped
        /\ ~IsExcluded(FileA, settings)
        /\ FileA \in DOMAIN settings.taggedFiles
        /\ mtime[FileA] <= settings.taggedFiles[FileA]

\* The segments of a path: the pieces between its slashes
RECURSIVE Segments(_)
Segments(path) ==
    LET k == IndexOf(path, SLASH, 1)
    IN  IF k = 0 THEN <<path>>
        ELSE <<SubSeq(path, 1, k - 1)>> \o Segments(SubSeq(path, k + 1, Len(path)))

FolderSegments(path) == LET segs == Segments(path) IN SubSeq(segs, 1, Len(segs) - 1)

\* C8 as stated (literal exclusion): a pattern without '*' excludes a
\* document iff, compared case-insensitively, the basename equals the
\* pattern or some folder segment of the path, at any depth, equals it.
LiteralExclusion ==
    (pout # "input" /\ ~Contains(pin.pattern, STAR))
    => (pout = "excluded"
          <=> \/ ToLowerCase(Basename(pin.path)) = ToLowerCase(pin.pattern)
              \/ \E k \in DOMAIN FolderSegments(pin.path) :
                    ToLowerCase(FolderSegments(pin.path)[k]) = ToLowerCase(pin.pattern))

\* The glob p, in which '*' matches any run of characters, matches all of s
RECURSIVE GlobMatches(_, _)
GlobMatches(p, s) ==
    IF p = <<>> THEN s = <<>>
    ELSE IF Head(p) = "*"
    THEN \E k \in 0..Len(s) : GlobMatches(Tail(p), SubSeq(s, k + 1, Len(s)))
    ELSE s # <<>> /\ Head(s) = Head(p) /\ GlobMatches(Tail(p), Tail(s))

\* The glob matches the whole path, a suffix that starts after a '/', or a
\* part between two '/'
GlobMatchesPath(p, path) ==
    LET slashes == {i \in 1..Len(path) : path[i] = "/"}
    IN  \/ GlobMatches(p, path)
        \/ \E i \in slashes : GlobMatches(p, SubSeq(path, i + 1, Len(path)))
        \/ \E i \in slashes, j \in slashes :
              i < j /\ GlobMatches(p, SubSeq(path, i + 1, j - 1))

\* C9 as stated (wildcard exclusion): a pattern with '*' excludes a document
\* iff the pattern, '*' matching any run of characters, matches the
\* lowercased path as a whole, as a suffix after a '/', or as a part
\* between two '/', whatever the letter case of path and pattern.
WildcardExclusion ==
    (pout # "input" /\ Contains(pin.pattern, STAR))
    => (pout = "excluded"
          <=> GlobMatchesPath(ToLowerCase(pin.pattern), ToLowerCase(pin.path)))

\* C10 as stated (excluded documents are never tagged): no tagging call
\* writes to a document that matched an exclusion pattern when the call
\* started on it.
ExcludedNeverTagged ==
    [][\A i \in Slots :
          (/\ inv[i].kind \in TaggingKinds
           /\ inv[i].pc = "write"
           /\ inv'[i].pc = "record")
          => ~inv[i].excludedAtStart]_vars

(***************************************************************************)
(* Properties of the auto-tag scheduler and of the record (Spec)           *)
(***************************************************************************)
\* C11 as stated (an open document is never auto-tagged from the edit
\* channel): no write of an edit-triggered call is applied to a document
\* while it is open in a leaf, also when it was opened during the LLM call.
OpenNeverAutoTagged ==
    [][\A i \in Slots :
          (/\ inv[i].kind = "edit"
           /\ inv[i].pc = "write"
           /\ inv'[i].pc = "record")
          => ~isFileCurrentlyOpen(inv[i].path)]_vars

\* The vault raises 'modify' for p in this step
ModifyEvent(p) == content'[p] # content[p]

\* An edit-triggered call for p starts in this step
EditCallStarts(p) ==
    \E i \in Slots : inv[i].kind = "none" /\ inv'[i].kind = "edit" /\ inv'[i].path = p

\* C12 as stated (leading-edge debounce): the first modify event for a path,
\* with no debounce window open, invokes the auto-tag pipeline at once.
LeadingEdgeDebounce ==
    [][\A p \in Paths :
          (/\ ModifyEvent(p)
           /\ autoTaggingEnabled
           /\ \A k \in DOMAIN debouncers : debouncers[k] = NoFile
           /\ settings.autoAddTags
           /\ settings.selectedModel # NoModel
           /\ Len(settings.defaultTags) > 0
           /\ ShouldProcess(p, mtime', settings')
           /\ ~isFileCurrentlyOpen(p)
           /\ FreeSlots # {})
          => EditCallStarts(p)]_vars

\* C12 (amended): the debounce is trailing-edge. A modify event invokes
\* nothing itself: it makes its path the pending argument of the debounced
\* call, in place of any path pending from an earlier event. An
\* edit-triggered call starts only when a pending debounced call runs, for
\* the path pending then, which is no longer pending afterwards.
TrailingEdgeDebounce ==
    [][/\ \A p \in Paths :
            (ModifyEvent(p) /\ autoTaggingEnabled)
            => /\ \A k \in DOMAIN debouncers : debouncers'[k] = p
               /\ \A q \in Paths : ~EditCallStarts(q)
       /\ \A p \in Paths :
            EditCallStarts(p)
            => /\ content' = content
               /\ \E k \in DOMAIN debouncers :
                     debouncers[k] = p /\ debouncers'[k] = NoFile]_vars

\* An edit-triggered call has just started for a document whose last
\* modification is older than the current time, and nothing is pending
TrailingEdgeDebounceWitness ==
    \E i \in Slots :
        /\ inv[i].kind = "edit"
        /\ inv[i].pc = "read"
        /\ mtime[inv[i].path] < now
        /\ content[inv[i].path] # InitContent[inv[i].path]
        /\ \A k \in DOMAIN debouncers : debouncers[k] = NoFile

\* No tagging or untagging call is in flight
Quiescent == \A i \in Slots : inv[i] = IdleInv

LLMRequestSent(i) == inv[i].pc = "read" /\ inv'[i].pc = "llm"
DocumentWritten(i) == inv[i].pc = "write" /\ inv'[i].pc = "record"

\* C14: a create, modify or close event that arrives while autoAddTags is
\* unset never leads to an LLM request or a document write, on either
\* trigger channel: no automatic call whose timer was set by an event that
\* arrived while the flag was unset sends a request or writes a document.
FlagGatesEvents ==
    [][\A i \in Slots :
          (/\ inv[i].kind \in {"edit", "close"}
           /\ LLMRequestSent(i) \/ DocumentWritten(i))
          => ~inv[i].eventWhileUnset]_vars

BatchKinds == {"sweep", "untagAll"}

\* File number j of the list is visited by the loop of a batch of this kind
\* without an await: shouldProcessFile rejects it and the sweep logs the skip
PassedOver(kind, j) ==
    /\ kind = "sweep"
    /\ ~ShouldProcess(MarkdownFiles[j], mtime', settings')

\* C15 (batch isolation): in a batch tagging sweep and in untag-all a failure
\* on one document (read, LLM or write error) is caught for that document
\* only: whatever happens to the current document, the loop goes on with the
\* next document of the list, and the batch ends only after the last one.
BatchIsolation ==
    [][\A i \in Slots :
          (inv[i].kind \in BatchKinds /\ inv'[i] # inv[i])
          => \/ /\ inv'[i].kind = inv[i].kind
                /\ inv'[i].idx = inv[i].idx
                /\ inv'[i].failed = inv[i].failed
             \/ /\ inv'[i].kind = inv[i].kind
                /\ inv'[i].idx > inv[i].idx
                /\ inv'[i].path = MarkdownFiles[inv'[i].idx]
                /\ inv'[i].pc \in {"read", "uread"}
                /\ \A j \in (inv[i].idx + 1)..(inv'[i].idx - 1) :
                      PassedOver(inv[i].kind, j)
             \/ /\ inv'[i] = IdleInv
                /\ \A j \in (inv[i].idx + 1)..Len(MarkdownFiles) :
                      PassedOver(inv[i].kind, j)]_vars

\* A sweep and an untag-all are both at the second document after an error
\* on the first one
BatchIsolationWitness ==
    /\ \E i \in Slots : /\ inv[i].kind = "sweep"
                        /\ {f.path : f \in inv[i].failed} = {MarkdownFiles[1]}
                        /\ inv[i].path = MarkdownFiles[2]
                        /\ inv[i].pc = "llm"
    /\ \E i \in Slots : /\ inv[i].kind = "untagAll"
                        /\ {f.path : f \in inv[i].failed} = {MarkdownFiles[1]}
                        /\ inv[i].path = MarkdownFiles[2]
                        /\ inv[i].pc = "uread"

\* The text of a vocabulary tag without its leading '#'
TagText(tag) == IF StartsWith(tag, HASH) THEN Tail(tag) ELSE tag

\* text occurs in content ignoring case, with no word character next to the
\* occurrence on either side
OccursAsWholeWord(doc, text) ==
    LET s == ToLowerCase(doc)
        t == ToLowerCase(text)
    IN  \E i \in 1..(Len(s) - Len(t) + 1) :
            /\ MatchAt(s, t, i)
            /\ ~(i > 1 /\ IsWordChar(s[i - 1]))
            /\ ~(i + Len(t) <= Len(s) /\ IsWordChar(s[i + Len(t)]))

\* C16: deterministic matching is whole-word, case-insensitive and
\* duplicate-free: a vocabulary tag is emitted iff its text without the
\* leading '#' occurs in the content as a whole word ignoring case; a tag
\* listed both with and without '#' is emitted once; every emitted tag
\* carries a leading '#'.
DeterministicMatching ==
    pout.stage = "matched"
    => /\ \A k \in DOMAIN pin.tags :
             HashTag(pin.tags[k]) \in Range(pout.addedTags)
             <=> OccursAsWholeWord(pin.content, TagText(pin.tags[k]))
       /\ \A j, k \in DOMAIN pout.addedTags :
             pout.addedTags[j] = pout.addedTags[k] => j = k
       /\ \A k \in DOMAIN pout.addedTags : StartsWith(pout.addedTags[k], HASH)
       /\ pout.addedTags # <<>>
             => StartsWith(pout.result, Join(pout.addedTags, SP) \o SP)

\* C17: a malformed LLM reply falls back to deterministic-only tagging: when
\* the reply has no `response` field or one of the wrong shape, synthesis
\* treats it as the empty string and returns the deterministic-pass output,
\* which goes on to the staleness check and is written if it differs from
\* the original content.
MalformedReplyFallsBack ==
    [][\A i \in Slots :
          (/\ inv[i].pc = "json"
           /\ inv[i].reply = NoResponseField
           /\ inv'[i] # inv[i])
          => /\ inv'[i].pc = "reread"
             /\ inv'[i].path = inv[i].path
             /\ inv'[i].taggedContent =
                    addDeterministicTags(inv[i].initialContent, inv[i].tags)]_vars

\* The LLM call of call i fails in this step: the fetch rejects, or the body
\* of the reply is not valid JSON
LLMCallFails(i) ==
    /\ inv'[i] # inv[i]
    /\ \/ inv[i].pc = "llm" /\ inv'[i].pc # "json"
       \/ inv[i].pc = "json" /\ inv[i].reply = InvalidJSON

\* C18: a network failure leaves everything unchanged: when the LLM call
\* fails or its reply is not valid JSON, the tagging call writes no document
\* and updates no record entry, in every tagging path; it is done with the
\* document, and a batch continues with its next document.
NetworkFailureChangesNothing ==
    [][\A i \in Slots : LLMCallFails(i)
          => /\ inv[i].kind \in TaggingKinds
             /\ UNCHANGED <<content, mtime, settings, tagWritten, selfArmed>>
             /\ IF inv[i].kind = "sweep"
                THEN \/ /\ inv'[i].kind = "sweep"
                        /\ inv'[i].pc = "read"
                        /\ inv'[i].idx > inv[i].idx
                        /\ \A j \in (inv[i].idx + 1)..(inv'[i].idx - 1) :
                              PassedOver("sweep", j)
                     \/ /\ inv'[i] = IdleInv
                        /\ \A j \in (inv[i].idx + 1)..Len(MarkdownFiles) :
                              PassedOver("sweep", j)
                ELSE inv'[i] = IdleInv]_vars

\* Two sweeps go on with the second document, one after the fetch for the
\* first document was rejected, one after its reply was not valid JSON: no
\* document is changed and nothing is recorded
NetworkFailureWitness ==
    /\ \E i \in Slots : /\ inv[i].kind = "sweep"
                        /\ inv[i].path = MarkdownFiles[2]
                        /\ \E f \in inv[i].failed :
                              f.path = MarkdownFiles[1] /\ f.at = "llm"
    /\ \E i \in Slots : /\ inv[i].kind = "sweep"
                        /\ inv[i].path = MarkdownFiles[2]
                        /\ \E f \in inv[i].failed :
                              /\ f.path = MarkdownFiles[1]
                              /\ f.at = "json"
                              /\ f.reply = InvalidJSON
    /\ content = InitContent
    /\ settings.taggedFiles = <<>>

\* C19: empty content is skipped silently: in every tagging path (edit,
\* close, sweep, tag-current-document) a document whose content has no
\* non-whitespace character causes no LLM request, no write and no record
\* update: when the initial read of a call returns such a content, the call
\* is done with the document and nothing changes.
EmptyContentSkipped ==
    [][\A i \in Slots :
          (/\ inv[i].kind \in TaggingKinds
           /\ inv[i].pc = "read"
           /\ Trim(content[inv[i].path]) = <<>>
           /\ inv'[i] # inv[i])
          => /\ ~LLMRequestSent(i)
             /\ inv'[i] = IdleInv \/ inv'[i].idx > inv[i].idx
             /\ UNCHANGED <<content, mtime, settings>>]_vars

\* C20: debounce is per document path: an edit event for path B that arrives
\* inside the debounce window opened by an event for a different path A
\* still invokes the pipeline for B, and the pipeline invocation for A is
\* unaffected by B's events. "Invokes" is taken as "starts or schedules the
\* call", whatever edge the debounce fires on: after the event a call for B
\* is started or pending, and the call pending for A is still pending.
PerPathDebounce ==
    [][\A a, b \in Paths :
          (/\ a # b
           /\ autoTaggingEnabled
           /\ ModifyEvent(b)
           /\ \E k \in DOMAIN debouncers : debouncers[k] = a)
          => /\ EditCallStarts(b) \/ \E k \in DOMAIN debouncers : debouncers'[k] = b
             /\ \E k \in DOMAIN debouncers : debouncers'[k] = a]_vars

\* A 'file-open' event is raised in this step (every user action of
\* WorkspaceSpec raises one, for the file that is active afterwards)
FileOpenEvent == userActions' # userActions

\* C21 (close trigger): whenever a file-open event names a document with a
\* different path than the tracked open document, or names none, the
\* previously open document, if it is a markdown document, is offered to the
\* auto-tag pipeline once after the settle delay (one timer is set, and the
\* timer calls autoTagFileOnClose) without passing through the debounce; a
\* file-open event for the same path schedules nothing; after every
\* file-open event the tracked open document is the newly opened one or none.
CloseTrigger ==
    [][/\ FileOpenEvent
          => /\ lastOpenFile' = activeFile'
             /\ IF /\ lastOpenFile # NoFile
                   /\ lastOpenFile # activeFile'
                   /\ lastOpenFile \in Paths
                THEN /\ lastOpenFile \notin closeTimers
                     /\ closeTimers' = closeTimers \cup {lastOpenFile}
                ELSE closeTimers' = closeTimers
             /\ UNCHANGED <<inv, debouncers>>
       /\ (~FileOpenEvent /\ closeTimers' # closeTimers)
          => \E p \in closeTimers :
                /\ closeTimers' = closeTimers \ {p}
                /\ debouncers' = debouncers
                /\ \/ inv' = inv
                   \/ \E i \in Slots :
                         /\ inv[i].kind = "none"
                         /\ inv'[i].kind = "close"
                         /\ inv'[i].path = p
                         /\ \A j \in Slots \ {i} : inv'[j] = inv[j]]_vars

\* The user has gone from a document to the image: one timer is pending,
\* for the document, and the image is the tracked open file
CloseTriggerWitness ==
    /\ closeTimers = {FileA}
    /\ lastOpenFile = ImageFile
    /\ userActions = 2

\* C22: enable/disable keeps a single subscription set: after any sequence
\* of enable and disable calls (as issued by every settings save) that ends
\* with auto-tagging enabled, exactly one create handler and one modify
\* handler with one debouncer are active, so that one modify event makes at
\* most one call pending.
SingleSubscriptionSet ==
    autoTaggingEnabled
    => /\ Len(debouncers) = 1
       /\ \A p \in Paths : Cardinality({k \in DOMAIN debouncers : debouncers[k] = p}) <= 1

\* C23: untagging clears the record and ignores exclusions: whenever
\* untagging (current document or batch) has written cleaned content to a
\* document, the document's taggedFiles entry is absent once the write has
\* resolved; and untagging proceeds the same way for documents that match
\* an exclusion pattern: untag-all goes through every document of the list,
\* and a read that finds something to remove goes on to the write of the
\* cleaned content (or to the catch block, if the read was rejected).
UntagClearsRecord ==
    [][\A i \in Slots :
          /\ (inv[i].pc = "urecord" /\ inv'[i] # inv[i])
             => inv[i].path \notin DOMAIN settings'.taggedFiles
          /\ (/\ inv[i].pc = "uread"
              /\ inv'[i] # inv[i]
              /\ Untag(content[inv[i].path]).wasModified)
             => \/ /\ inv'[i].pc = "uwrite"
                   /\ inv'[i].path = inv[i].path
                   /\ inv'[i].taggedContent = Untag(content[inv[i].path]).content
                \/ inv'[i] = Caught(inv[i], mtime, settings)
          /\ (inv[i].pc = "uwrite" /\ inv'[i].pc = "urecord")
             => content'[inv[i].path] = inv[i].taggedContent
          /\ (inv[i].kind = "untagAll" /\ inv'[i] # inv[i])
             => \/ inv'[i].kind = "untagAll" /\ inv'[i].idx = inv[i].idx
                \/ /\ inv'[i].kind = "untagAll"
                   /\ inv'[i].idx = inv[i].idx + 1
                   /\ inv'[i].path = MarkdownFiles[inv'[i].idx]
                   /\ inv'[i].pc = "uread"
                \/ inv'[i] = IdleInv /\ inv[i].idx = Len(MarkdownFiles)]_vars

\* Untag-all has written the cleaned content to a document that matches an
\* exclusion pattern and has a record entry; the entry is deleted next
UntagClearsRecordWitness ==
    \E i \in Slots :
        /\ inv[i].kind = "untagAll"
        /\ inv[i].pc = "urecord"
        /\ inv[i].excludedAtStart
        /\ IsExcluded(inv[i].path, settings)
        /\ inv[i].path \in DOMAIN settings.taggedFiles
        /\ content[inv[i].path] = inv[i].taggedContent
        /\ content[inv[i].path] # inv[i].initialContent

\* Call i has received a reply whose response trims to the empty string
EmptyResponse(i) ==
    /\ inv[i].kind \in TaggingKinds
    /\ inv[i].reply \in Responses
    /\ Trim(inv[i].reply) = <<>>
    /\ ~isAlreadyTagged(inv[i].initialContent)

\* C24 as stated: when the trimmed LLM response is empty, synthesis returns
\* exactly the deterministic-pass output with no tagged block header; the
\* caller then writes the document and updates the record iff that output
\* differs from the original content, and otherwise changes neither.
EmptyResponseWriteIff ==
    [][\A i \in Slots :
          /\ (EmptyResponse(i) /\ inv[i].pc = "json" /\ inv'[i] # inv[i])
             => inv'[i].taggedContent =
                    addDeterministicTags(inv[i].initialContent, inv[i].tags)
          /\ (EmptyResponse(i) /\ inv[i].pc = "reread" /\ inv'[i] # inv[i])
             => IF inv[i].taggedContent # inv[i].initialContent
                THEN inv'[i].pc = "write" /\ inv'[i].path = inv[i].path
                ELSE /\ MovedOn(inv[i], inv'[i])
                     /\ UNCHANGED <<content, mtime, settings>>]_vars

\* C24 (amended): when the trimmed LLM response is empty, synthesis returns
\* exactly the deterministic-pass output, which holds no tagged block header;
\* the caller then writes it and records the document iff it differs from
\* the original content and the re-read returns the original content,
\* unless a vault operation is rejected; in every other case the call is
\* done with the document and changes neither document nor record.
EmptyResponseGuardedWrite ==
    [][\A i \in Slots :
          /\ (EmptyResponse(i) /\ inv[i].pc = "json" /\ inv'[i] # inv[i])
             => /\ inv'[i].pc = "reread"
                /\ inv'[i].taggedContent =
                      addDeterministicTags(inv[i].initialContent, inv[i].tags)
                /\ ~isAlreadyTagged(inv'[i].taggedContent)
          /\ (EmptyResponse(i) /\ inv[i].pc = "reread" /\ inv'[i] # inv[i])
             => IF /\ inv[i].taggedContent # inv[i].initialContent
                   /\ content[inv[i].path] = inv[i].initialContent
                THEN \/ inv'[i].pc = "write" /\ inv'[i].path = inv[i].path
                     \/ inv'[i] = Caught(inv[i], mtime, settings)
                ELSE /\ MovedOn(inv[i], inv'[i])
                     /\ UNCHANGED <<content, mtime, settings>>
          /\ (EmptyResponse(i) /\ inv[i].pc = "write" /\ inv'[i] # inv[i])
             => \/ /\ inv'[i].pc = "record"
                   /\ content'[inv[i].path] = inv[i].taggedContent
                \/ /\ inv'[i] = Caught(inv[i], mtime, settings)
                   /\ UNCHANGED <<content, mtime, settings>>
          /\ (EmptyResponse(i) /\ inv[i].pc = "record" /\ inv'[i] # inv[i])
             => inv[i].path \in DOMAIN settings'.taggedFiles]_vars

\* A call whose reply was empty has written the deterministic-pass output,
\* which differs from the content it read, and is about to record it
EmptyResponseWitness ==
    \E i \in Slots :
        /\ EmptyResponse(i)
        /\ inv[i].pc = "record"
        /\ inv[i].taggedContent # inv[i].initialContent
        /\ inv[i].taggedContent =
              addDeterministicTags(inv[i].initialContent, inv[i].tags)
        /\ content[inv[i].path] = inv[i].taggedContent

\* Call i is at the point where it calls processContentWithOllama: its
\* initial read is about to resolve and the caller does not skip the content
CallsSynthesis(i) ==
    /\ inv[i].kind \in TaggingKinds
    /\ inv[i].pc = "read"
    /\ IF inv[i].kind \in {"edit", "close"}
       THEN Trim(content[inv[i].path]) # <<>>
       ELSE ~isAlreadyTagged(content[inv[i].path])

\* C25 (no model selected): while no model is configured no call issues an
\* LLM request and no edit, close or sweep call starts; a call that reaches
\* synthesis then fails with the no-model error whatever the content is,
\* the error is caught, the call is done with the document and the step
\* changes no document and no record entry.
NoModelNoTagging ==
    [][settings.selectedModel = NoModel =>
         \A i \in Slots :
            /\ inv'[i].pc = "llm" => inv[i].pc = "llm"
            /\ (inv[i].pc = "idle" /\ inv'[i].pc # "idle")
               => inv'[i].kind \notin {"edit", "close", "sweep"}
            /\ (CallsSynthesis(i) /\ inv'[i] # inv[i])
               => /\ inv'[i] = Caught(inv[i], mtime, settings)
                  /\ UNCHANGED <<content, mtime, settings>>]_vars

\* No model is configured, a call has passed the guards of its path and is
\* about to call synthesis on a content that already holds a tagged block
NoModelWitness ==
    /\ settings.selectedModel = NoModel
    /\ \E i \in Slots :
          /\ CallsSynthesis(i)
          /\ isAlreadyTagged(content[inv[i].path])
    /\ \E i \in Slots :
          /\ CallsSynthesis(i)
          /\ ~isAlreadyTagged(content[inv[i].path])

\* C26 (untag removes exactly the tagged block): for a content made of a
\* tagged block (header, summary, divider) followed by a body, the block
\* removal of the untagging commands returns exactly the body, also when
\* the body holds later divider lines.
BlockRemovalExact ==
    (/\ pout.stage = "untagged"
     /\ ~HasMarker(pin.content)
     /\ Trim(pin.response) # <<>>)
    => /\ pout.first = TaggedBlock(Timestamp(1), Trim(pin.response),
                                   addDeterministicTags(pin.content, pin.tags))
       /\ pout.blockRemoved = addDeterministicTags(pin.content, pin.tags)

\* The debounced call of handler set k runs in this step
DebouncedCallRuns(k) ==
    /\ k \in DOMAIN debouncers
    /\ debouncers[k] # NoFile
    /\ debouncers'[k] = NoFile

\* The continuation of a tagging call's vault.modify of path is still to run
ModifyContinuationPending(path) ==
    \E j \in Slots : inv[j].pc = "record" /\ inv[j].path = path

\* C27 (auto-tagging quiesces): the write of an autoTagFile or
\* autoTagFileOnClose call raises a modify event that makes the written
\* document the pending file of every debounced call; when such a pending
\* call runs, the continuation of the write having run (it follows the write
\* at once, the debounced call two seconds later) and the user not having
\* changed or untagged the document in between, the guards of autoTagFile
\* reject the document: no call starts, so the event leads to no request and
\* no further write, also when the written content is the deterministic-pass
\* output of an empty response.
AutoTaggingQuiesces ==
    [][/\ \A i \in Slots :
            (/\ inv[i].kind \in {"edit", "close"}
             /\ inv[i].pc = "write"
             /\ inv'[i].pc = "record"
             /\ autoTaggingEnabled)
            => /\ \A k \in DOMAIN debouncers' : debouncers'[k] = inv[i].path
               /\ inv[i].path \in selfArmed'
       /\ \A k \in DOMAIN debouncers :
            (/\ DebouncedCallRuns(k)
             /\ debouncers[k] \in selfArmed
             /\ ~ModifyContinuationPending(debouncers[k]))
            => /\ ~AutoTagGuard(debouncers[k])
               /\ inv' = inv
               /\ UNCHANGED <<content, mtime, settings>>]_vars

\* An auto-tag call has written the deterministic-pass output of an empty
\* response ('#ml ' before the content, no tagged block) and recorded it;
\* the debounced call made pending by that write is about to run
AutoTaggingQuiescesWitness ==
    \E k \in DOMAIN debouncers :
        LET path == debouncers[k] IN
        /\ path \in selfArmed
        /\ \A j \in Slots : inv[j].pc = "idle"
        /\ path \in DOMAIN settings.taggedFiles
        /\ ~isAlreadyTagged(content[path])
        /\ TagPatternLen(content[path]) > 0
        /\ settings.autoAddTags
        /\ ~isFileCurrentlyOpen(path)

\* The number of tagged block headers in doc: the positions at which the
\* marker '---\nLLM-tagged:' starts
HeaderCount(doc) ==
    Cardinality({ p \in 1..Len(doc) :
                    /\ p + Len(TagMarker) - 1 <= Len(doc)
                    /\ SubSeq(doc, p, p + Len(TagMarker) - 1) = TagMarker })

\* C28 (never double-tagged): user edits and LLM responses holding no
\* marker, every document holds at most one tagged block header in every
\* reachable state, also when two tagging calls of the same path overlap
\* and both pass the staleness check.
NeverDoubleTagged ==
    \A path \in Paths : HeaderCount(content[path]) <= 1

\* Two tagging calls of the same document have both passed the staleness
\* check and both written their tagged block; neither has recorded yet
NeverDoubleTaggedWitness ==
    \E i, j \in Slots :
        /\ i # j
        /\ inv[i].kind \in TaggingKinds /\ inv[j].kind \in TaggingKinds
        /\ inv[i].pc = "record" /\ inv[j].pc = "record"
        /\ inv[i].path = inv[j].path
        /\ isAlreadyTagged(inv[i].taggedContent)
        /\ isAlreadyTagged(inv[j].taggedContent)
        /\ ~isAlreadyTagged(inv[i].initialContent)
        /\ HeaderCount(content[inv[i].path]) = 1

\* The number of positions of doc at which text starts
Occurrences(doc, text) ==
    Cardinality({ p \in 1..Len(doc) :
                    /\ p + Len(text) - 1 <= Len(doc)
                    /\ SubSeq(doc, p, p + Len(text) - 1) = text })

\* The hashtags the deterministic pass can insert
SystemHashtags == { HashTag(tags[k]) : k \in 1..1, tags \in TagLists }

\* C29 (hashtag prefixes do not accumulate): the contents the user writes
\* hold no hashtag, so every hashtag of a document was inserted by tagging
\* operations since the last user edit; whatever tagging and untagging
\* operations ran since, each such hashtag is in the document at most once.
HashtagsDoNotAccumulate ==
    \A path \in Paths : \A h \in SystemHashtags :
        Occurrences(content[path], h) <= 1

\* C30 (the close trigger only processes closed documents): when the
\* timer of the file-open handler runs autoTagFileOnClose and a call starts
\* for a document, and when a close call writes a document, the document is
\* shown in no markdown leaf, also when the user has opened it again since
\* the event.
CloseTriggerOnlyClosed ==
    [][\A i \in Slots :
          /\ (inv[i].pc = "idle" /\ inv'[i].kind = "close")
             => ~isFileCurrentlyOpen(inv'[i].path)
          /\ (inv[i].kind = "close" /\ inv[i].pc = "write"
                /\ inv'[i].pc = "record")
             => ~isFileCurrentlyOpen(inv[i].path)]_vars

==============================================================================
